---- MODULE Spec2Model ----
(***************************************************************************)
(* Inference by enumeration over a discrete Bayesian network               *)
(* (src/Exercise-1.py): the CPT lookup Variable.probability, the network   *)
(* container BayesianNetwork with its sorter sorted_nodes, and the engine  *)
(* InferenceByEnumeration (_enumeration_ask, _enumerate_all, normalize,    *)
(* query).                                                                 *)
(*                                                                         *)
(* Probabilities are kept exact: every table entry is a number of tenths   *)
(* (Den), so a product of k entries is a number of 10^-k.                  *)
(***************************************************************************)
EXTENDS Integers, Sequences, FiniteSets, TLC

VARIABLES
    \* BayesianNetwork
    variables,            \* self.variables: ordered dict, a sequence of [name, obj]
    edges,                \* self.edges: Variable object -> list of child objects
    \* one call of sorted_nodes
    pc,                   \* position of the program
    l_sorted,             \* l_sorted
    s_origin_nodes,       \* s_origin_nodes
    children_of_variable, \* keys of children_of_variable, in insertion order
    n_parent,             \* n_parent
    child,                \* child
    outcome,              \* how the call of sorted_nodes ended
    edges0,               \* self.edges as it was when sorted_nodes was called
    \* one call of Variable.probability
    p_var, p_state, p_parentstates, p_result,
    \* InferenceByEnumeration and one call of query
    topo_order,           \* self.topo_order
    q_X, q_evidence,      \* arguments of query
    x_evidence, new_vars, \* locals of _enumeration_ask
    x_state,              \* loop variable of _enumeration_ask
    query_of_x,           \* weights so far, each a number of 10^-Len(topo_order)
    call_vars, call_evidence, \* arguments of the latest call of _enumerate_all
    q_result,             \* what query returned or raised
    e_result              \* what a call of _enumerate_all from outside returned

vars == <<variables, edges, pc, l_sorted, s_origin_nodes, children_of_variable,
          n_parent, child, outcome, edges0, p_var, p_state, p_parentstates,
          p_result, topo_order, q_X, q_evidence, x_evidence, new_vars, x_state,
          query_of_x, call_vars, call_evidence, q_result, e_result>>

netVars == <<variables, edges>>
sortVars == <<pc, l_sorted, s_origin_nodes, children_of_variable, n_parent,
              child, outcome, edges0>>
probVars == <<p_var, p_state, p_parentstates, p_result>>
engVars == <<topo_order, q_X, q_evidence, x_evidence, new_vars, x_state,
             query_of_x, call_vars, call_evidence, q_result, e_result>>

----------------------------------------------------------------------------
(* Bounds of the model *)

\* add_edge is called at most MaxEdges times
MaxEdges == 2
\* at most MaxVars variables are registered
MaxVars == 3
\* s_origin_nodes is followed up to this length
MaxWork == 3
\* largest state index a caller passes in parentstates or evidence
MaxIndex == 2
\* at most MaxLateVars variables are registered in the network of an engine
MaxLateVars == 2

----------------------------------------------------------------------------
(* The Variable objects.  a, b, c, d are the variables of main(); cond0,    *)
(* cond1, event those of the docstring of Variable.__init__ (the priors of  *)
(* cond0 and cond1 are chosen here); a2 is a second Variable named 'A',     *)
(* declared with parent 'B', which closes the cycle A -> B -> A.  An        *)
(* object is never equal to a name: no id below is a name.                  *)

\* denominator of every table entry
Den == 10

\* a dict value that is a Variable object instead of a state index
VariableObject == -1

Objs == {"a", "a2", "b", "c", "d", "o_cond0", "o_cond1", "o_event"}

Name(o) ==
    CASE o = "a" -> "A"
      [] o = "a2" -> "A"
      [] o = "b" -> "B"
      [] o = "c" -> "C"
      [] o = "d" -> "D"
      [] o = "o_cond0" -> "cond0"
      [] o = "o_cond1" -> "cond1"
      [] o = "o_event" -> "event"

Parents(o) ==
    CASE o \in {"a", "o_cond0", "o_cond1"} -> <<>>
      [] o = "a2" -> <<"B">>
      [] o = "b" -> <<"A">>
      [] o \in {"c", "d"} -> <<"B">>
      [] o = "o_event" -> <<"cond0", "cond1">>

NoParentStates(o) ==
    CASE o \in {"a", "o_cond0", "o_cond1"} -> <<>>
      [] o \in {"a2", "b", "c", "d"} -> <<2>>
      [] o = "o_event" -> <<3, 2>>

NoStates(o) ==
    CASE o \in {"a", "a2", "b", "c", "d", "o_cond1"} -> 2
      [] o \in {"o_cond0", "o_event"} -> 3

\* table[state][column], in tenths; rows and columns are numbered from 1 here
Table(o) ==
    CASE o = "a" -> << <<8>>, <<2>> >>
      [] o = "a2" -> << <<5, 5>>, <<5, 5>> >>
      [] o = "b" -> << <<5, 2>>, <<5, 8>> >>
      [] o = "c" -> << <<1, 3>>, <<9, 7>> >>
      [] o = "d" -> << <<6, 8>>, <<4, 2>> >>
      [] o = "o_cond0" -> << <<2>>, <<3>>, <<5>> >>
      [] o = "o_cond1" -> << <<4>>, <<6>> >>
      [] o = "o_event" -> << <<2, 2, 7, 0, 2, 4>>,
                           <<3, 8, 2, 0, 2, 4>>,
                           <<5, 0, 1, 10, 6, 2>> >>

----------------------------------------------------------------------------
(* Lists and dicts *)

Range(s) == {s[i] : i \in 1..Len(s)}

\* list.index(x): the first position of x, counted from 1 here
RECURSIVE IndexOf(_, _)
IndexOf(s, x) == IF s[1] = x THEN 1 ELSE 1 + IndexOf(Tail(s), x)

\* list.remove(x): the list without the first occurrence of x
ListRemove(s, x) ==
    LET i == IndexOf(s, x)
    IN SubSeq(s, 1, i - 1) \o SubSeq(s, i + 1, Len(s))

\* dict[k] = v on a dict from names to values
DictSet(e, k, v) == [n \in DOMAIN e \cup {k} |-> IF n = k THEN v ELSE e[n]]

\* np.prod of a list of ints (1 for the empty list)
RECURSIVE Prod(_)
Prod(s) == IF s = <<>> THEN 1 ELSE s[1] * Prod(Tail(s))

RECURSIVE Pow(_, _)
Pow(b, k) == IF k = 0 THEN 1 ELSE b * Pow(b, k - 1)

----------------------------------------------------------------------------
(* Variable.probability *)

\* the loop of lines 104-110 over self.parents[i..]: the table index, or the
\* error of the first parent that has no value or a value that is no number
RECURSIVE TableIndexFrom(_, _, _, _)
TableIndexFrom(v, parentstates, i, acc) ==
    IF i > Len(Parents(v)) THEN [err |-> "ok", index |-> acc]
    ELSE LET variable == Parents(v)[i]
         IN IF variable \notin DOMAIN parentstates
            THEN [err |-> "ValueError_parent", index |-> 0]
            ELSE IF parentstates[variable] = VariableObject
            THEN [err |-> "TypeError", index |-> 0]
            ELSE LET var_index == IndexOf(Parents(v), variable)
                     stride == Prod(SubSeq(NoParentStates(v), 1, var_index - 1))
                 IN TableIndexFrom(v, parentstates, i + 1,
                                   acc + parentstates[variable] * stride)

\* the lookup as it would be with the last-listed parent varying fastest
\* (the stride of a parent taken from the parents listed after it)
TableIndexLastFastest(v, parentstates) ==
    LET n == Len(Parents(v))
        RECURSIVE Go(_, _)
        Go(i, acc) ==
            IF i > n THEN [err |-> "ok", index |-> acc]
            ELSE LET variable == Parents(v)[i]
                 IN IF variable \notin DOMAIN parentstates
                    THEN [err |-> "ValueError_parent", index |-> 0]
                    ELSE IF parentstates[variable] = VariableObject
                    THEN [err |-> "TypeError", index |-> 0]
                    ELSE Go(i + 1, acc + parentstates[variable]
                              * Prod(SubSeq(NoParentStates(v), i + 1, n)))
    IN Go(1, 0)

\* lines 104-110: table_index
TableIndex(v, parentstates) == TableIndexFrom(v, parentstates, 1, 0)

\* lines 95-112; state is an int and parentstates a dict here
probability(v, state, parentstates) ==
    IF state >= NoStates(v) THEN [err |-> "ValueError_state", val |-> 0]
    ELSE IF state < 0 THEN [err |-> "ValueError_state", val |-> 0]
    ELSE LET t == TableIndex(v, parentstates)
         IN IF t.err # "ok" THEN [err |-> t.err, val |-> 0]
            ELSE IF t.index >= Len(Table(v)[1])
            THEN [err |-> "IndexError", val |-> 0]
            ELSE [err |-> "ok", val |-> Table(v)[state + 1][t.index + 1]]

----------------------------------------------------------------------------
(* BayesianNetwork *)

\* self.variables.values()
Registered == {variables[i].obj : i \in 1..Len(variables)}

HasName(n) == \E i \in 1..Len(variables) : variables[i].name = n

\* self.variables[n]
Lookup(n) == variables[CHOOSE i \in 1..Len(variables) : variables[i].name = n].obj

\* self.variables[variable.name] = variable: a new key goes last, a key
\* already there keeps its place and gets the new object
DictStore(vs, o) ==
    IF \E i \in 1..Len(vs) : vs[i].name = Name(o)
    THEN [i \in 1..Len(vs) |->
            IF vs[i].name = Name(o) THEN [name |-> Name(o), obj |-> o] ELSE vs[i]]
    ELSE Append(vs, [name |-> Name(o), obj |-> o])

NumEdges == LET RECURSIVE Sum(_)
                Sum(S) == IF S = {} THEN 0
                          ELSE LET o == CHOOSE x \in S : TRUE
                               IN Len(edges[o]) + Sum(S \ {o})
            IN Sum(Objs)

\* lines 129-135; called while no other call is running: before the sorter
\* or the engine's constructor is called, or on the network of an engine
add_variable(variable) ==
    /\ pc \in {"build", "idle"}
    /\ Len(DictStore(variables, variable))
         <= (IF pc = "idle" THEN MaxLateVars ELSE MaxVars)
    /\ variables' = DictStore(variables, variable)
    /\ UNCHANGED <<edges, sortVars, probVars, engVars>>

\* lines 137-146
add_edge(from_variable, to_variable) ==
    /\ pc \in {"build", "idle"}
    /\ NumEdges < MaxEdges
    /\ from_variable \in Registered
    /\ to_variable \in Registered
    /\ edges' = [edges EXCEPT ![from_variable] = Append(@, to_variable)]
    /\ UNCHANGED <<variables, sortVars, probVars, engVars>>

----------------------------------------------------------------------------
(* BayesianNetwork.sorted_nodes.  edge_dict is a shallow copy of self.edges: *)
(* its lists are the lists of self.edges, so edge_dict[n] is edges[n], and  *)
(* a key the copy gains on a lookup holds the empty list, as edges[n] does  *)
(* here.  children_of_variable[n] is that same list again.                  *)

\* lines 176-180: the variables without declared parents, in the order of
\* self.variables
RECURSIVE OriginNodes(_)
OriginNodes(vs) ==
    IF vs = <<>> THEN <<>>
    ELSE IF Parents(vs[1].obj) = <<>>
         THEN <<vs[1].obj>> \o OriginNodes(Tail(vs))
         ELSE OriginNodes(Tail(vs))

\* lines 197-202: child is appended once for every list of
\* children_of_variable that comes before the first list holding child
RECURSIVE ScanPushes(_, _, _)
ScanPushes(keys, es, ch) ==
    IF keys = <<>> THEN <<>>
    ELSE IF ch \in Range(es[keys[1]]) THEN <<>>
         ELSE <<ch>> \o ScanPushes(Tail(keys), es, ch)

\* lines 205-208: the first variable that is no key of children_of_variable
\* raises KeyError, the first with a non-empty list prints and returns None
RECURSIVE FinalCheck(_, _, _)
FinalCheck(vs, keys, es) ==
    IF vs = <<>> THEN "returned"
    ELSE IF vs[1].obj \notin Range(keys) THEN "KeyError"
         ELSE IF es[vs[1].obj] # <<>> THEN "printed_None"
              ELSE FinalCheck(Tail(vs), keys, es)

\* s_origin_nodes.pop(): the last element
Pop(s) == [node |-> s[Len(s)], rest |-> SubSeq(s, 1, Len(s) - 1)]

\* lines 169-180
SortBegin ==
    /\ pc = "build"
    /\ pc' = "outer"
    /\ l_sorted' = <<>>
    /\ s_origin_nodes' = OriginNodes(variables)
    /\ children_of_variable' = <<>>
    /\ edges0' = edges
    /\ UNCHANGED <<netVars, n_parent, child, outcome, probVars, engVars>>

\* lines 182-185
PopOrigin ==
    /\ pc = "outer"
    /\ s_origin_nodes # <<>>
    /\ n_parent' = Pop(s_origin_nodes).node
    /\ s_origin_nodes' = Pop(s_origin_nodes).rest
    /\ l_sorted' = Append(l_sorted, Pop(s_origin_nodes).node)
    /\ pc' = "inner"
    /\ UNCHANGED <<netVars, children_of_variable, child, outcome, edges0,
                   probVars, engVars>>

\* lines 187-195
InnerRemove ==
    /\ pc = "inner"
    /\ edges[n_parent] # <<>>
    /\ children_of_variable' =
         IF n_parent \in Range(children_of_variable) THEN children_of_variable
         ELSE Append(children_of_variable, n_parent)
    /\ child' = edges[n_parent][1]
    /\ edges' = [edges EXCEPT ![n_parent] = ListRemove(@, @[1])]
    /\ pc' = "scan"
    /\ UNCHANGED <<variables, l_sorted, s_origin_nodes, n_parent, outcome,
                   edges0, probVars, engVars>>

\* lines 197-202
InnerScan ==
    /\ pc = "scan"
    /\ LET pushed == ScanPushes(children_of_variable, edges, child)
       IN /\ Len(s_origin_nodes) + Len(pushed) <= MaxWork
          /\ s_origin_nodes' = s_origin_nodes \o pushed
    /\ pc' = "append"
    /\ UNCHANGED <<netVars, l_sorted, children_of_variable, n_parent, child,
                   outcome, edges0, probVars, engVars>>

\* line 203
InnerAppend ==
    /\ pc = "append"
    /\ edges' = [edges EXCEPT ![n_parent] = Append(@, child)]
    /\ pc' = "inner"
    /\ UNCHANGED <<variables, l_sorted, s_origin_nodes, children_of_variable,
                   n_parent, child, outcome, edges0, probVars, engVars>>

\* line 187, the list is empty
InnerExit ==
    /\ pc = "inner"
    /\ edges[n_parent] = <<>>
    /\ pc' = "outer"
    /\ UNCHANGED <<netVars, l_sorted, s_origin_nodes, children_of_variable,
                   n_parent, child, outcome, edges0, probVars, engVars>>

\* line 182, the worklist is empty, and lines 205-208
SortEnd ==
    /\ pc = "outer"
    /\ s_origin_nodes = <<>>
    /\ outcome' = FinalCheck(variables, children_of_variable, edges)
    /\ pc' = "done"
    /\ UNCHANGED <<netVars, l_sorted, s_origin_nodes, children_of_variable,
                   n_parent, child, edges0, probVars, engVars>>

SortStep ==
    \/ SortBegin
    \/ PopOrigin
    \/ InnerRemove
    \/ InnerScan
    \/ InnerAppend
    \/ InnerExit
    \/ SortEnd

\* the Variable objects a caller registers in the network specification
BuildObjs == {"a", "a2", "b", "o_cond0"}

NoCall ==
    /\ p_var = "a" /\ p_state = 0 /\ p_parentstates = <<>>
    /\ p_result = [err |-> "none", val |-> 0]

NoEngine ==
    /\ topo_order = <<>> /\ q_X = "A" /\ q_evidence = <<>>
    /\ x_evidence = <<>> /\ new_vars = <<>> /\ x_state = 0
    /\ query_of_x = <<>> /\ call_vars = <<>> /\ call_evidence = <<>>
    /\ q_result = [err |-> "none", w |-> <<>>, z |-> 0]
    /\ e_result = [err |-> "none", val |-> 0]

NoSort ==
    /\ l_sorted = <<>> /\ s_origin_nodes = <<>>
    /\ children_of_variable = <<>> /\ n_parent = "a" /\ child = "a"
    /\ outcome = "none"

\* BayesianNetwork.__init__
Init ==
    /\ variables = <<>>
    /\ edges = [o \in Objs |-> <<>>]
    /\ edges0 = [o \in Objs |-> <<>>]
    /\ pc = "build"
    /\ NoSort /\ NoCall /\ NoEngine

Next ==
    \/ \E o \in BuildObjs : add_variable(o)
    \/ \E p \in BuildObjs, c \in BuildObjs : add_edge(p, c)
    \/ SortStep

Spec == Init /\ [][Next]_vars

\* the call of sorted_nodes keeps running once it has started
FairSpec == Spec /\ WF_vars(SortStep)

----------------------------------------------------------------------------
(* What the claims about sorted_nodes speak of: the network the call was   *)
(* given (self.variables, and self.edges as it was at the call).            *)

\* the edges of the child lists es between registered variables
EdgeRelOf(es) ==
    {pc2 \in Registered \X Registered : pc2[2] \in Range(es[pc2[1]])}

\* the variables reachable from S along at most k edges of R
RECURSIVE ReachIn(_, _, _)
ReachIn(R, S, k) ==
    IF k = 0 THEN S
    ELSE ReachIn(R, S \cup {e[2] : e \in {f \in R : f[1] \in S}}, k - 1)

\* the variables reachable from o along at least one edge
DescendantsOf(es, o) ==
    ReachIn(EdgeRelOf(es), {e[2] : e \in {f \in EdgeRelOf(es) : f[1] = o}},
            Cardinality(Registered))

AcyclicOf(es) == \A o \in Registered : o \notin DescendantsOf(es, o)

\* the edges are the declared parents: every declared parent is registered
\* and has an edge to the child, and every edge leads from a registered
\* variable to a registered child that declares its source
AgreeOf(es) ==
    /\ \A c \in Registered : \A i \in 1..Len(Parents(c)) :
          /\ HasName(Parents(c)[i])
          /\ <<Lookup(Parents(c)[i]), c>> \in EdgeRelOf(es)
    /\ \A o \in Objs : \A i \in 1..Len(es[o]) :
          /\ o \in Registered
          /\ es[o][i] \in Registered
          /\ Name(o) \in Range(Parents(es[o][i]))

\* ... and no child is listed twice under one parent
ConsistentOf(es) ==
    /\ AgreeOf(es)
    /\ \A o \in Objs : \A i, j \in 1..Len(es[o]) :
          es[o][i] = es[o][j] => i = j

\* the network the call of sorted_nodes was given
NetAcyclic == AcyclicOf(edges0)
EdgesAgree == AgreeOf(edges0)
NetConsistent == ConsistentOf(edges0)

Position(s, x) == CHOOSE i \in 1..Len(s) : s[i] = x

\* s lists every registered variable once, every parent before its children
IsTopologicalOrderOf(s, es) ==
    /\ Range(s) = Registered
    /\ Len(s) = Cardinality(Registered)
    /\ \A e \in EdgeRelOf(es) : Position(s, e[1]) < Position(s, e[2])

IsTopologicalOrder(s) == IsTopologicalOrderOf(s, edges0)

\* C1: on an acyclic network whose edges agree with the declared parents,
\* a finished call of sorted_nodes has returned a sequence of all the
\* variables in which every parent stands before its children.
C1_TopologicalOrder ==
    (pc = "done" /\ NetAcyclic /\ NetConsistent)
        => (outcome = "returned" /\ IsTopologicalOrder(l_sorted))

\* the model stops following the call here: s_origin_nodes would grow past
\* MaxWork
WorkBoundReached ==
    /\ pc = "scan"
    /\ Len(s_origin_nodes)
         + Len(ScanPushes(children_of_variable, edges, child)) > MaxWork

\* C2: a call of sorted_nodes that has started on an acyclic network whose
\* edges are the declared parents eventually finishes (or, in this
\* model, outgrows the bound on the worklist).
C2_Terminates ==
    (pc = "outer" /\ NetAcyclic /\ EdgesAgree)
        ~> (pc = "done" \/ WorkBoundReached)

\* C3: on a network whose edges (the declared parents) contain a cycle, a
\* finished call of sorted_nodes has failed with the cycle-detected error.
C3_CycleDetected ==
    (pc = "done" /\ NetConsistent /\ ~NetAcyclic) => outcome = "CycleDetected"

\* Python's order of the names as strings ('A' < 'B' < ... < 'cond0' < ...)
NameRank(n) ==
    CASE n = "A" -> 1
      [] n = "B" -> 2
      [] n = "C" -> 3
      [] n = "D" -> 4
      [] n = "cond0" -> 5
      [] n = "cond1" -> 6
      [] n = "event" -> 7

\* C4: the first variable sorted_nodes emits is the one with the smallest
\* name among the variables that have no parents.
C4_LexTieBreak ==
    (pc # "build" /\ l_sorted # <<>>)
        => \A o \in Range(OriginNodes(variables)) :
              NameRank(Name(l_sorted[1])) <= NameRank(Name(o))

\* C7: from the call of sorted_nodes on (here on an acyclic network whose
\* edges agree with the declared parents), every child list of
\* network.edges is what it was before the call.
C7_NetworkReadOnly ==
    (pc # "build" /\ NetAcyclic /\ NetConsistent) => edges = edges0

----------------------------------------------------------------------------
(* Variable.probability called on its own: any Variable, any state, any    *)
(* dict from names to state indices or Variable objects.                    *)

ParentStateKeys == {"A", "B", "cond0", "cond1"}

Dicts(keys, values) == UNION {[K -> values] : K \in SUBSET keys}

ProbInit ==
    /\ variables = <<>>
    /\ edges = [o \in Objs |-> <<>>]
    /\ edges0 = [o \in Objs |-> <<>>]
    /\ pc = "prob_call"
    /\ NoSort /\ NoEngine
    /\ p_var \in Objs
    /\ p_state \in -1..3
    /\ p_parentstates \in Dicts(ParentStateKeys, (0..MaxIndex) \cup {VariableObject})
    /\ p_result = [err |-> "none", val |-> 0]

probability_call ==
    /\ pc = "prob_call"
    /\ p_result' = probability(p_var, p_state, p_parentstates)
    /\ pc' = "prob_done"
    /\ UNCHANGED <<netVars, l_sorted, s_origin_nodes, children_of_variable,
                   n_parent, child, outcome, edges0, p_var, p_state,
                   p_parentstates, engVars>>

ProbNext == probability_call

ProbSpec == ProbInit /\ [][ProbNext]_vars

\* the column the parent assignment ps encodes to: the sum over the declared
\* parents i of ps[parents[i]] times the product of the cardinalities of the
\* parents listed before i
RECURSIVE EncodedColumn(_, _, _)
EncodedColumn(v, ps, i) ==
    IF i = 0 THEN 0
    ELSE EncodedColumn(v, ps, i - 1)
           + ps[Parents(v)[i]] * Prod(SubSeq(NoParentStates(v), 1, i - 1))

\* state is a state of v and ps gives every declared parent of v a state
\* index below that parent's cardinality
ValidLookup(v, state, ps) ==
    /\ state \in 0..(NoStates(v) - 1)
    /\ \A i \in 1..Len(Parents(v)) :
          /\ Parents(v)[i] \in DOMAIN ps
          /\ ps[Parents(v)[i]] \in 0..(NoParentStates(v)[i] - 1)

\* C6: for a valid state and parent assignment (extra keys allowed),
\* probability returns table[state][column], column being the mixed-radix
\* code of the parent assignment with the first-listed parent fastest.
C6_MixedRadixLookup ==
    (pc = "prob_done" /\ ValidLookup(p_var, p_state, p_parentstates))
        => p_result =
             [err |-> "ok",
              val |-> Table(p_var)[p_state + 1]
                        [EncodedColumn(p_var, p_parentstates,
                                       Len(Parents(p_var))) + 1]]

\* probability(0, {cond0: 1, cond1: 1, A: ..}) on the docstring's variable
\* has returned the entry of row 0, column 4
C6_Witness ==
    /\ pc = "prob_done"
    /\ p_var = "o_event" /\ p_state = 0
    /\ DOMAIN p_parentstates = {"cond0", "cond1", "A"}
    /\ p_parentstates["cond0"] = 1 /\ p_parentstates["cond1"] = 1
    /\ EncodedColumn(p_var, p_parentstates, 2) = 4
    /\ p_result = [err |-> "ok", val |-> Table("o_event")[1][5]]

----------------------------------------------------------------------------
(* InferenceByEnumeration.  The value of _enumerate_all(vs, ..) is a       *)
(* number of Den^-Len(vs); a weight of _enumeration_ask is a number of      *)
(* Den^-N, N the number of variables of the cached order.                   *)

\* self.topo_order when sorted_nodes has returned None (line 207)
NoneOrder == <<"None">>

\* lines 212-214: sorted_nodes has returned to the constructor, which keeps
\* the value in self.topo_order and returns the engine.  When sorted_nodes
\* has raised, the constructor raises as well and there is no engine
construct_return ==
    /\ pc = "done"
    /\ outcome \in {"returned", "printed_None"}
    /\ topo_order' = IF outcome = "returned" THEN l_sorted ELSE NoneOrder
    /\ pc' = "idle"
    /\ UNCHANGED <<netVars, l_sorted, s_origin_nodes, children_of_variable,
                   n_parent, child, outcome, edges0, probVars, q_X, q_evidence,
                   x_evidence, new_vars, x_state, query_of_x, call_vars,
                   call_evidence, q_result, e_result>>

\* lines 238-242: self.bayesian_network.variables[parent_name] of every
\* declared parent
get_parents_ok(y) == \A i \in 1..Len(Parents(y)) : HasName(Parents(y)[i])

RECURSIVE _enumerate_all(_, _)
RECURSIVE SumStates(_, _, _, _, _, _)

\* lines 261-264: the loop over the states of y_variable.  evidence is the
\* dict the call was given, y_evidence its copy, which holds the Variable
\* object under y's name from the second round on
SumStates(y, rest, evidence, y_evidence, y_state, summ) ==
    IF y_state = NoStates(y) THEN [err |-> "ok", val |-> summ]
    ELSE LET p == probability(y, y_state, evidence)
         IN IF p.err # "ok" THEN [err |-> p.err, val |-> 0]
            ELSE LET r == _enumerate_all(rest, y_evidence)
                 IN IF r.err # "ok" THEN r
                    ELSE SumStates(y, rest, evidence,
                                   DictSet(y_evidence, Name(y), VariableObject),
                                   y_state + 1, summ + p.val * r.val)

\* lines 244-264; the value is a number of Den^-Len(vs).  The keys of
\* evidence are names, y_variable is a Variable object
_enumerate_all(vs, evidence) ==
    IF vs = <<>> THEN [err |-> "ok", val |-> 1]
    ELSE LET y_variable == Pop(vs).node
             rest == Pop(vs).rest
         IN IF ~get_parents_ok(y_variable) THEN [err |-> "KeyError", val |-> 0]
            ELSE IF y_variable \in DOMAIN evidence
            THEN LET p == probability(y_variable, NoStates(y_variable), evidence)
                 IN IF p.err # "ok" THEN [err |-> p.err, val |-> 0]
                    ELSE LET r == _enumerate_all(rest, evidence)
                         IN IF r.err # "ok" THEN r
                            ELSE [err |-> "ok", val |-> p.val * r.val]
            ELSE SumStates(y_variable, rest, evidence, evidence, 0, 0)

\* line 249 as the caller sees it: the list it passed has lost its last
\* element
AfterCall(vs) == IF vs = <<>> THEN <<>> ELSE Pop(vs).rest

RECURSIVE SeqSum(_)
SeqSum(s) == IF s = <<>> THEN 0 ELSE s[1] + SeqSum(Tail(s))

\* query(var, evidence), lines 278-282 and 224-229: line 225 raises KeyError
\* for a name that is no key of the network, line 229 AttributeError for
\* the order None
query_call(X, evidence) ==
    /\ pc = "idle"
    /\ q_X' = X
    /\ q_evidence' = evidence
    /\ IF HasName(X) /\ topo_order # NoneOrder
       THEN /\ x_evidence' = evidence
            /\ new_vars' = topo_order
            /\ x_state' = 0
            /\ query_of_x' = <<>>
            /\ pc' = "ask_loop"
            /\ UNCHANGED q_result
       ELSE /\ q_result' =
                 [err |-> IF HasName(X) THEN "AttributeError" ELSE "KeyError",
                  w |-> <<>>, z |-> 0]
            /\ pc' = "q_done"
            /\ UNCHANGED <<x_evidence, new_vars, x_state, query_of_x>>
    /\ UNCHANGED <<netVars, l_sorted, s_origin_nodes, children_of_variable,
                   n_parent, child, outcome, edges0, probVars, topo_order,
                   call_vars, call_evidence, e_result>>

\* lines 231-234: one round of the loop over the states of X
ask_round ==
    /\ pc = "ask_loop"
    /\ x_state < NoStates(Lookup(q_X))
    /\ call_vars' = new_vars
    /\ call_evidence' = x_evidence
    /\ LET r == _enumerate_all(new_vars, x_evidence)
       IN IF r.err = "ok"
          THEN /\ query_of_x' =
                    Append(query_of_x,
                           r.val * Pow(Den, Len(topo_order) - Len(new_vars)))
               /\ new_vars' = AfterCall(new_vars)
               /\ x_evidence' = DictSet(x_evidence, Name(Lookup(q_X)), VariableObject)
               /\ x_state' = x_state + 1
               /\ UNCHANGED <<pc, q_result>>
          ELSE /\ q_result' = [err |-> r.err, w |-> <<>>, z |-> 0]
               /\ pc' = "q_done"
               /\ UNCHANGED <<query_of_x, new_vars, x_evidence, x_state>>
    /\ UNCHANGED <<netVars, l_sorted, s_origin_nodes, children_of_variable,
                   n_parent, child, outcome, edges0, probVars, topo_order,
                   q_X, q_evidence, e_result>>

\* lines 236, 216-219 and 282-283: the posterior is w[x] / z; a zero z gives
\* nan entries, which Variable.__init__ refuses (line 54)
ask_return ==
    /\ pc = "ask_loop"
    /\ x_state = NoStates(Lookup(q_X))
    /\ q_result' =
         IF SeqSum(query_of_x) = 0
         THEN [err |-> "ValueError_table", w |-> <<>>, z |-> 0]
         ELSE [err |-> "ok", w |-> query_of_x, z |-> SeqSum(query_of_x)]
    /\ pc' = "q_done"
    /\ UNCHANGED <<netVars, l_sorted, s_origin_nodes, children_of_variable,
                   n_parent, child, outcome, edges0, probVars, topo_order,
                   q_X, q_evidence, x_evidence, new_vars, x_state, query_of_x,
                   call_vars, call_evidence, e_result>>

\* evidence: a state index for some of the network's variables
Evidences ==
    {e \in Dicts({variables[i].name : i \in 1..Len(variables)}, 0..MaxIndex) :
        \A k \in DOMAIN e : e[k] < NoStates(Lookup(k))}

\* the names a caller asks about
QueryNames == {Name(o) : o \in BuildObjs}

\* the lists of distinct Variable objects of the network
VarLists ==
    UNION {{s \in [1..n -> Registered] : \A i, j \in 1..n : s[i] = s[j] => i = j}
              : n \in 0..Len(variables)}

\* lines 244-264: _enumerate_all(vs, evidence) called on the engine from
\* outside _enumeration_ask
enumerate_all_call(vs, evidence) ==
    /\ pc = "idle"
    /\ call_vars' = vs
    /\ call_evidence' = evidence
    /\ e_result' = _enumerate_all(vs, evidence)
    /\ pc' = "enum_done"
    /\ UNCHANGED <<netVars, l_sorted, s_origin_nodes, children_of_variable,
                   n_parent, child, outcome, edges0, probVars, topo_order,
                   q_X, q_evidence, x_evidence, new_vars, x_state, query_of_x,
                   q_result>>

\* The program with the engine: a network is built, InferenceByEnumeration
\* is constructed over it (its call of sorted_nodes is SortStep), and on the
\* engine, if the constructor returns one, query or _enumerate_all is
\* called; the network of an engine can still be added to.
EngineNext ==
    \/ \E o \in BuildObjs : add_variable(o)
    \/ \E p \in BuildObjs, c \in BuildObjs : add_edge(p, c)
    \/ SortStep
    \/ construct_return
    \/ \E X \in QueryNames, e \in Evidences : query_call(X, e)
    \/ ask_round
    \/ ask_return
    \/ \E vs \in VarLists, e \in Evidences : enumerate_all_call(vs, e)

EngineSpec == Init /\ [][EngineNext]_vars

----------------------------------------------------------------------------
(* What the claims about the engine speak of: the network as it is when    *)
(* the engine is called, and its joint distribution, the product of one     *)
(* table entry per variable.                                                *)

NetNames == {variables[i].name : i \in 1..Len(variables)}

\* the variables of the network, as a list
NetObjs == [i \in 1..Len(variables) |-> variables[i].obj]

\* the complete assignments of the network's variables that agree with e
Completions(e) ==
    {f \in [NetNames -> 0..MaxIndex] :
        /\ \A n \in NetNames : f[n] < NoStates(Lookup(n))
        /\ \A k \in DOMAIN e : f[k] = e[k]}

\* the product over the variables of s of the entry of their table for their
\* state in f under their parents' states in f, a number of Den^-Len(s)
RECURSIVE FactorProduct(_, _)
FactorProduct(s, f) ==
    IF s = <<>> THEN 1
    ELSE Table(s[1])[f[Name(s[1])] + 1]
             [EncodedColumn(s[1], f, Len(Parents(s[1]))) + 1]
           * FactorProduct(Tail(s), f)

RECURSIVE MassOver(_)
MassOver(F) ==
    IF F = {} THEN 0
    ELSE LET f == CHOOSE g \in F : TRUE
         IN FactorProduct(NetObjs, f) + MassOver(F \ {f})

\* P(e), a number of Den^-Len(variables)
JointMass(e) == MassOver(Completions(e))

\* C5: InferenceByEnumeration(bn).query(X, e) on an acyclic consistent
\* network returns the posterior.  The constructor, when its call of
\* sorted_nodes has finished on such a network with at least one variable,
\* has an engine to return; and a finished query(X, e), X a variable of the
\* network not in e and P(e) > 0, has returned a vector of length
\* X.no_states whose entry x is P(X = x, e) / P(e).
C5_Posterior ==
    /\ (pc = "done" /\ variables # <<>> /\ NetAcyclic /\ NetConsistent)
          => outcome = "returned"
    /\ (pc = "q_done" /\ AcyclicOf(edges) /\ ConsistentOf(edges)
          /\ HasName(q_X) /\ q_X \notin DOMAIN q_evidence
          /\ JointMass(q_evidence) > 0)
          => /\ q_result.err = "ok"
             /\ Len(q_result.w) = NoStates(Lookup(q_X))
             /\ \A x \in 0..(NoStates(Lookup(q_X)) - 1) :
                   q_result.w[x + 1] * JointMass(q_evidence)
                     = JointMass(DictSet(q_evidence, q_X, x)) * q_result.z

AllObserved(vs, evidence) ==
    /\ vs # <<>>
    /\ \A i \in 1..Len(vs) :
          /\ Name(vs[i]) \in DOMAIN evidence
          /\ \A j \in 1..Len(Parents(vs[i])) : Parents(vs[i])[j] \in DOMAIN evidence
    /\ \A k \in DOMAIN evidence : evidence[k] # VariableObject

C10_AskCalls ==
    (pc = "ask_loop" /\ x_state >= 1)
        => /\ call_vars = topo_order
           /\ call_evidence = DictSet(q_evidence, q_X, x_state - 1)

====
